---- MODULE Spec2Model ----
(***************************************************************************)
(* Model of pyrf/gui/trace_controls.py: the TraceControls widget, its      *)
(* trace and marker handlers, the layout it rebuilds, and the three peak   *)
(* searches (_find_peak, _find_right_peak, _find_left_peak).               *)
(*                                                                         *)
(* Python arrays are TLA+ sequences; every index below is the 0-based      *)
(* Python index, so element i of array a is a[i + 1].                      *)
(***************************************************************************)
EXTENDS Integers, Sequences, FiniteSets, TLC

\* ---------------------------------------------------------------- bounds
\* longest capture of the widget state machine (Spec)
MaxN == 1
\* longest capture of the marker machine (SpecMarkers)
MaxSamples == 2
\* longest capture of the search-engine specification (SpecSearch)
MaxLen == 6

\* ------------------------------------------------------ program constants
\* len(colors.TRACE_COLORS): trace widgets are numbered 0 - 2
NumTraces == 3
\* for num in (0, 1): two markers
NumMarkers == 2
\* the draw combobox holds 'Live', 'Max', 'Min'
NumDrawItems == 3

Traces == 0 .. (NumTraces - 1)
Markers == 0 .. (NumMarkers - 1)
DrawItems == 0 .. (NumDrawItems - 1)
\* the power levels of a sample: the floor and a peak
Pows == {0, 1}
\* the values of plot_state.peak_threshold
Thresholds == {0, 1}

\* Python's None for an array-valued attribute (trace.data, and pow_data and
\* xdata before the first capture).  A capture has at least one sample, so
\* the empty tuple never stands for an array that is stored.
None == << >>

\* marker.data_index is None, a Python int, or the index array np.where
\* returns; v holds the index or indices.
NoIndex == [kind |-> "none", v |-> << >>]
IntIndex(k) == [kind |-> "int", v |-> << k >>]
ArrayIndex(s) == [kind |-> "array", v |-> s]

\* --------------------------------------------------------- numpy helpers
Min2(a, b) == IF a <= b THEN a ELSE b
Max2(a, b) == IF a >= b THEN a ELSE b

\* a[i] for a 0-based index i
At(a, i) == a[i + 1]

\* a slice bound as Python normalises it: negative counts from the end,
\* then clipped to [0, len]
SliceBound(i, len) == IF i < 0 THEN Max2(i + len, 0) ELSE Min2(i, len)

\* a[start:stop]
Slice(a, start, stop) ==
    LET lo == SliceBound(start, Len(a))
        hi == SliceBound(stop, Len(a))
    IN  IF lo >= hi THEN << >> ELSE SubSeq(a, lo + 1, hi)

\* np.linspace(fstart, fstop, n) for the captures drawn below, whose step
\* (fstop - fstart) / (n - 1) is a whole number
linspace(fstart, fstop, n) ==
    [i \in 1 .. n |->
        IF n = 1 THEN fstart ELSE fstart + ((i - 1) * (fstop - fstart)) \div (n - 1)]

\* np.searchsorted(a, v), side='left', a ascending: the first index whose
\* element is >= v, len(a) when there is none
searchsorted(a, v) == Cardinality({i \in 1 .. Len(a) : a[i] < v})

RECURSIVE Insert(_, _)
Insert(x, s) ==
    IF s = << >> THEN << x >>
    ELSE IF x <= Head(s) THEN << x >> \o s
    ELSE << Head(s) >> \o Insert(x, Tail(s))

\* np.sort(a): ascending
RECURSIVE sort(_)
sort(a) == IF a = << >> THEN << >> ELSE Insert(Head(a), sort(Tail(a)))

RECURSIVE Sum(_)
Sum(a) == IF a = << >> THEN 0 ELSE Head(a) + Sum(Tail(a))

\* np.max(a) of a non-empty array
ArrayMax(a) == CHOOSE x \in {a[i] : i \in 1 .. Len(a)} :
                   \A j \in 1 .. Len(a) : a[j] <= x

RECURSIVE WhereFrom(_, _, _)
WhereFrom(a, value, i) ==
    IF i >= Len(a) THEN << >>
    ELSE (IF At(a, i) = value THEN << i >> ELSE << >>) \o WhereFrom(a, value, i + 1)

\* np.where(a == value)[0]: every index holding value, ascending
where(a, value) == WhereFrom(a, value, 0)

\* np.mean(a) as the exact fraction sum / cnt; the mean of an empty array is
\* nan (numpy warns and returns nan)
mean(a) == [nan |-> (a = << >>), sum |-> Sum(a), cnt |-> Len(a)]

\* x < m + t for a mean m; every comparison with nan is False
LessThanMeanPlus(x, m, t) == (~ m.nan) /\ (x * m.cnt < m.sum + t * m.cnt)

\* np.ma.masked_less(a, m + t).compressed(): the elements not below m + t,
\* in their order in a
masked_less_compressed(a, m, t) ==
    LET Keep(x) == ~ LessThanMeanPlus(x, m, t) IN SelectSeq(a, Keep)

\* int(n * 0.8)
Int08(n) == (8 * n) \div 10

\* len(a) / 2 (Python 2 integer division)
HalfLen(a) == Len(a) \div 2

\* -------------------------------------------------------------- the state
VARIABLES
    traces,          \* self._plot.traces: write, max_hold, min_hold, blank, data
    markers,         \* self._plot.markers: enabled, trace_index, data_index
    draw,            \* currentIndex of each trace's draw combobox
    checked,         \* the marker radio button that is checked, -1 when none is
    marker_selected, \* self.marker_selected
    layout,          \* the widgets _build_layout left shown
    pow_data,        \* self.pow_data
    xdata,           \* self.xdata
    view,            \* self._plot.view_box.viewRange()[0]
    last             \* the handler that ran last and the exception it raised

vars == << traces, markers, draw, checked, marker_selected, layout,
           pow_data, xdata, view, last >>

\* The captures drawn below span fstart = 0 to fstop = 2 * (n - 1) over
\* their n samples, so the samples lie at the even frequencies 0, 2, ...
CaptureAxis(n) == linspace(0, 2 * (n - 1), n)

\* view windows [lo, hi] with lo <= hi: below, between, on and above the
\* samples of an axis of n samples
ViewsOver(n) ==
    {w \in [lo : -1 .. (2 * n - 1), hi : -1 .. (2 * n - 1)] : w.lo <= w.hi}

Done(op, num, raised) == [op |-> op, num |-> num, raised |-> raised]

\* ------------------------------------------------------------ trace modes
\* max_hold without its self._plot.traces[num].write = False
max_hold_keeping_write(ts, num) ==
    [ts EXCEPT ![num].max_hold = TRUE,
               ![num].min_hold = FALSE, ![num].blank = FALSE]

max_hold(ts, num) ==
    [ts EXCEPT ![num].write = FALSE, ![num].max_hold = TRUE,
               ![num].min_hold = FALSE, ![num].blank = FALSE]

min_hold(ts, num) ==
    [ts EXCEPT ![num].write = FALSE, ![num].max_hold = FALSE,
               ![num].min_hold = TRUE, ![num].blank = FALSE]

trace_write(ts, num) ==
    [ts EXCEPT ![num].write = TRUE, ![num].max_hold = FALSE,
               ![num].min_hold = FALSE, ![num].blank = FALSE]

\* Marker.disable: the marker is off and its index unset
disable(m) == [m EXCEPT !.enabled = FALSE, !.data_index = NoIndex]

\* Marker.enable
enable(m) == [m EXCEPT !.enabled = TRUE]

\* blank_trace: the trace part
blank_trace_traces(ts, num) ==
    [ts EXCEPT ![num].write = FALSE, ![num].max_hold = FALSE,
               ![num].min_hold = FALSE, ![num].blank = TRUE,
               ![num].data = None]

\* blank_trace: the marker part
\* blank_trace without its loop over the markers
blank_trace_keeping_markers(ms, num) == ms

blank_trace_markers(ms, num) ==
    [i \in Markers |-> IF ms[i].trace_index = num THEN disable(ms[i]) ELSE ms[i]]

\* [self.trace_write, self.max_hold, self.min_hold][index](num)
draw_changed(ts, num, index) ==
    CASE index = 0 -> trace_write(ts, num)
      [] index = 1 -> max_hold(ts, num)
      [] OTHER     -> min_hold(ts, num)

\* ----------------------------------------------------------------- layout
\* _build_layout: everything is hidden, then a blank trace shows its
\* "+ Trace" button, any other trace its draw, hold and remove widgets and,
\* while some marker is disabled, its "+ Marker" button, followed by the
\* widgets of the enabled markers bound to it
build_layout(ts, ms) ==
    LET extra_markers == \E m \in Markers : ~ ms[m].enabled
    IN  [add        |-> {k \in Traces : ts[k].blank},
         controls   |-> {k \in Traces : ~ ts[k].blank},
         add_marker |-> {k \in Traces : ~ ts[k].blank /\ extra_markers},
         markers    |-> {m \in Markers : ms[m].enabled
                                         /\ ~ ts[ms[m].trace_index].blank}]

\* ------------------------------------------------------------ peak search
\* What a search leaves behind: the exception it raised ("none" when it
\* returned) and the marker's data_index.
Returned(index) == [raised |-> "none", data_index |-> index]
Raised(exception, index) == [raised |-> exception, data_index |-> index]

\* window_freq[-1] < data_range[0] or window_freq[0] > data_range[-1]
WindowMisses(window, data_range) ==
    window.hi < data_range[1] \/ window.lo > data_range[Len(data_range)]

\* _find_peak: marker is the marker record, data its trace's data, xd
\* self.xdata, window the view range
find_peak_result(marker, data, xd, window) ==
    IF xd = None THEN Raised("AttributeError", marker.data_index)
    ELSE IF WindowMisses(window, xd) THEN Returned(marker.data_index)
    ELSE LET min_index == searchsorted(xd, window.lo)
             max_index == searchsorted(xd, window.hi)
         IN  IF data = None THEN Raised("TypeError", marker.data_index)
             ELSE IF Slice(data, min_index, max_index) = << >>
                  THEN Raised("ValueError", marker.data_index)
             ELSE Returned(ArrayIndex(
                      where(data, ArrayMax(Slice(data, min_index, max_index)))))

\* np.mean(np.sort(pow)[int(len(pow) * 0.8):-1])
noise_floor(pow) == mean(Slice(sort(pow), Int08(Len(pow)), -1))

\* np.ma.masked_less(pow, noise_floor + peak_threshold).compressed()
peak_values(pow, t) == masked_less_compressed(pow, noise_floor(pow), t)

\* self.xdata[m:-1]
right_range(xd, m) == Slice(xd, m, -1)

\* pow_data[min_index:max_index] of _find_right_peak
right_pow(data, xd, window, m) ==
    LET data_range == right_range(xd, m)
        min_index  == searchsorted(data_range, window.lo) + m
        max_index  == searchsorted(data_range, window.hi) + m
    IN  Slice(data, min_index, max_index)

\* peak_values[1 if len(peak_values) > 1 else 0]
right_choice(values) == At(values, IF Len(values) > 1 THEN 1 ELSE 0)

\* self.xdata[0:m]
left_range(xd, m) == Slice(xd, 0, m)

\* pow_data[min_index:max_index] of _find_left_peak
left_pow(data, xd, window, m) ==
    LET data_range == left_range(xd, m)
        min_index  == searchsorted(data_range, window.lo)
        max_index  == searchsorted(data_range, window.hi)
    IN  Slice(data, min_index, max_index)

\* the choice without its -2: always the last candidate
left_choice_last(values) == At(values, Len(values) - 1)

\* peak_values[-2 if len(peak_values) > 1 else -1]
left_choice(values) ==
    At(values, IF Len(values) > 1 THEN Len(values) - 2 ELSE Len(values) - 1)

\* A data_index used as a slice bound: an int is itself; an index array of
\* several elements is a TypeError; an index array of one element converts
\* to its element on the numpy builds that still allow it (as_scalar) and is
\* a TypeError on the others.
SliceBoundOk(index, as_scalar) ==
    index.kind = "int" \/ (index.kind = "array" /\ Len(index.v) = 1 /\ as_scalar)

\* the default without its test for None
default_index_always(marker, data) == IntIndex(HalfLen(data))

\* if marker.data_index is None: marker.data_index = len(pow_data) / 2
default_index(marker, data) ==
    IF marker.data_index.kind = "none" THEN IntIndex(HalfLen(data))
    ELSE marker.data_index

\* _find_right_peak, t the peak threshold
find_right_peak_result(marker, data, xd, window, t, as_scalar) ==
    IF marker.data_index.kind = "none" /\ data = None
    THEN Raised("TypeError", marker.data_index)
    ELSE LET index == default_index(marker, data) IN
         IF xd = None THEN Raised("AttributeError", index)
         ELSE IF ~ SliceBoundOk(index, as_scalar) THEN Raised("TypeError", index)
         ELSE LET m == index.v[1] IN
              IF Len(right_range(xd, m)) = 0 THEN Returned(index)
              ELSE IF WindowMisses(window, right_range(xd, m)) THEN Returned(index)
              ELSE IF data = None THEN Raised("TypeError", index)
              ELSE LET values == peak_values(right_pow(data, xd, window, m), t) IN
                   IF Len(values) = 0 THEN Returned(index)
                   ELSE Returned(ArrayIndex(where(data, right_choice(values))))

\* _find_left_peak.  self._marker_check is a widget this class never
\* creates, so the click on it for a disabled marker is an AttributeError.
find_left_peak_result(marker, data, xd, window, t, as_scalar) ==
    IF ~ marker.enabled THEN Raised("AttributeError", marker.data_index)
    ELSE IF marker.data_index.kind = "none" /\ data = None
    THEN Raised("TypeError", marker.data_index)
    ELSE LET index == default_index(marker, data) IN
         IF xd = None THEN Raised("AttributeError", index)
         ELSE IF ~ SliceBoundOk(index, as_scalar) THEN Raised("TypeError", index)
         ELSE LET m == index.v[1] IN
              IF Len(left_range(xd, m)) = 0 THEN Returned(index)
              ELSE IF WindowMisses(window, left_range(xd, m)) THEN Returned(index)
              ELSE IF data = None THEN Raised("TypeError", index)
              ELSE LET values == peak_values(left_pow(data, xd, window, m), t) IN
                   IF Len(values) = 0 THEN Returned(index)
                   ELSE Returned(ArrayIndex(where(data, left_choice(values))))

\* ------------------------------------------------------------------ Init
\* A trace as the plot constructs it: one mode, no data yet
OneMode(t) ==
    Cardinality({f \in {"write", "max_hold", "min_hold", "blank"} : t[f]}) = 1

InitialTraces ==
    {t \in [write : BOOLEAN, max_hold : BOOLEAN, min_hold : BOOLEAN,
            blank : BOOLEAN, data : {None}] : OneMode(t)}

\* A marker as the plot constructs it: disabled, index unset
InitialMarker == [enabled |-> FALSE, trace_index |-> 0, data_index |-> NoIndex]

\* TraceControls.__init__: no capture yet, marker_selected 0, every draw
\* combobox on the item of its own number, the layout built
Init ==
    /\ traces \in [Traces -> InitialTraces]
    /\ markers = [m \in Markers |-> InitialMarker]
    /\ draw = [num \in Traces |-> num]
    /\ checked = -1
    /\ marker_selected = 0
    /\ layout = build_layout(traces, markers)
    /\ pow_data = None
    /\ xdata = None
    /\ view = [lo |-> 0, hi |-> 0]
    /\ last = Done("init", 0, "none")

\* ---------------------------------------------------------------- captures
\* The plot's own handler of a capture: a trace that is not blank holds a
\* power array of the length and frequency axis of the capture
update_curve(t, power) == IF t.blank THEN t ELSE [t EXCEPT !.data = power]

\* capture_received, together with the plot's handler of the same signal
capture_received(power) ==
    /\ pow_data' = power
    /\ xdata' = CaptureAxis(Len(power))
    /\ traces' = [k \in Traces |-> update_curve(traces[k], power)]
    /\ last' = Done("capture_received", 0, "none")
    /\ UNCHANGED << markers, draw, checked, marker_selected, layout, view >>

\* the view box is panned or zoomed to another window
view_changed(window) ==
    /\ window # view
    /\ view' = window
    /\ last' = Done("view_changed", 0, "none")
    /\ UNCHANGED << traces, markers, draw, checked, marker_selected, layout,
                    pow_data, xdata >>

\* ----------------------------------------------------------- trace widgets
\* draw.currentIndexChanged: another item of a shown draw combobox is picked
currentIndexChanged(num, index) ==
    /\ num \in layout.controls
    /\ index # draw[num]
    /\ draw' = [draw EXCEPT ![num] = index]
    /\ traces' = draw_changed(traces, num, index)
    /\ last' = Done("draw_changed", num, "none")
    /\ UNCHANGED << markers, checked, marker_selected, layout, pow_data, xdata, view >>

\* add_trace.clicked.  (It also unchecks the trace's Pause checkbox; the
\* checkbox and trace.store are left out of the model, which no handler
\* below reads.)
add_trace_clicked(num) ==
    /\ num \in layout.add
    /\ traces' = draw_changed(traces, num, draw[num])
    /\ layout' = build_layout(traces', markers)
    /\ last' = Done("add_trace_clicked", num, "none")
    /\ UNCHANGED << markers, draw, checked, marker_selected, pow_data, xdata, view >>

\* remove_trace.clicked
remove_trace_clicked(num) ==
    /\ num \in layout.controls
    /\ traces' = blank_trace_traces(traces, num)
    /\ markers' = blank_trace_markers(markers, num)
    /\ layout' = build_layout(traces', markers')
    /\ last' = Done("remove_trace_clicked", num, "none")
    /\ UNCHANGED << draw, checked, marker_selected, pow_data, xdata, view >>

\* the choice with its test inverted: marker 0 while it is enabled
marker_to_add_inverted(ms) == IF ms[0].enabled THEN 0 ELSE 1

\* m = 0 if not self._plot.markers[0].enabled else 1
marker_to_add(ms) == IF ~ ms[0].enabled THEN 0 ELSE 1

\* add_marker.clicked
add_marker_clicked(num) ==
    /\ num \in layout.add_marker
    /\ LET m == marker_to_add(markers) IN
       /\ markers' = [markers EXCEPT ![m] = [enable(@) EXCEPT !.trace_index = num]]
       /\ checked' = m
       /\ marker_selected' = IF checked # m THEN m ELSE marker_selected
    /\ layout' = build_layout(traces, markers')
    /\ last' = Done("add_marker_clicked", num, "none")
    /\ UNCHANGED << traces, draw, pow_data, xdata, view >>

\* ---------------------------------------------------------- marker widgets
\* radio.clicked
marker_select(num) ==
    /\ num \in layout.markers
    /\ checked' = num
    /\ marker_selected' = num
    /\ last' = Done("marker_select", num, "none")
    /\ UNCHANGED << traces, markers, draw, layout, pow_data, xdata, view >>

\* self.xdata[marker.data_index] of center_clicked is an IndexError for an
\* index past the end of xdata
IndexInRange(index, xd) == \A i \in 1 .. Len(index.v) : index.v[i] < Len(xd)

center_clicked_result(marker, xd, pd) ==
    IF ~ marker.enabled THEN Returned(marker.data_index)
    ELSE IF xd = None THEN Raised("AttributeError", marker.data_index)
    ELSE IF ~ IndexInRange(marker.data_index, xd)
         THEN Raised("IndexError", marker.data_index)
    ELSE Returned(IntIndex(HalfLen(pd)))

\* center.clicked
center_clicked(num) ==
    /\ num \in layout.markers
    /\ LET r == center_clicked_result(markers[num], xdata, pow_data) IN
       /\ markers' = [markers EXCEPT ![num].data_index = r.data_index]
       /\ last' = Done("center_clicked", num, r.raised)
    /\ UNCHANGED << traces, draw, checked, marker_selected, layout,
                    pow_data, xdata, view >>

\* remove_marker.clicked
remove_marker_clicked(num) ==
    /\ num \in layout.markers
    /\ markers' = [markers EXCEPT ![num] = disable(@)]
    /\ layout' = build_layout(traces, markers')
    /\ last' = Done("remove_marker_clicked", num, "none")
    /\ UNCHANGED << traces, draw, checked, marker_selected, pow_data, xdata, view >>

\* ------------------------------------------------------- the three searches
\* The searches are methods: they are modelled for every marker, shown or
\* not, which includes every press of the Peak, Peak Right and Peak Left
\* buttons.
SearchFrame == UNCHANGED << traces, draw, checked, marker_selected, layout,
                            pow_data, xdata, view >>

find_peak(num) ==
    /\ LET marker == markers[num]
           r == find_peak_result(marker, traces[marker.trace_index].data, xdata, view)
       IN  /\ markers' = [markers EXCEPT ![num].data_index = r.data_index]
           /\ last' = Done("find_peak", num, r.raised)
    /\ SearchFrame

find_right_peak(num) ==
    /\ \E t \in Thresholds, as_scalar \in BOOLEAN :
         LET marker == markers[num]
             r == find_right_peak_result(marker, traces[marker.trace_index].data,
                                         xdata, view, t, as_scalar)
         IN  /\ markers' = [markers EXCEPT ![num].data_index = r.data_index]
             /\ last' = Done("find_right_peak", num, r.raised)
    /\ SearchFrame

\* _find_left_peak were self._marker_check the marker's checkbox: the click
\* enables a disabled marker before the search goes on
find_left_peak_enabling(num) ==
    /\ \E t \in Thresholds, as_scalar \in BOOLEAN :
         LET marker == enable(markers[num])
             r == find_left_peak_result(marker, traces[marker.trace_index].data,
                                        xdata, view, t, as_scalar)
         IN  /\ markers' = [markers EXCEPT ![num] = [marker EXCEPT !.data_index = r.data_index]]
             /\ last' = Done("find_left_peak", num, r.raised)
    /\ SearchFrame

find_left_peak(num) ==
    /\ \E t \in Thresholds, as_scalar \in BOOLEAN :
         LET marker == markers[num]
             r == find_left_peak_result(marker, traces[marker.trace_index].data,
                                        xdata, view, t, as_scalar)
         IN  /\ markers' = [markers EXCEPT ![num].data_index = r.data_index]
             /\ last' = Done("find_left_peak", num, r.raised)
    /\ SearchFrame

\* ------------------------------------------------------------------- Next
Captures(n) == UNION {[1 .. k -> Pows] : k \in 1 .. n}

\* No widget handler reads a power value: the widget machine is fed
\* captures of every length up to MaxN, all of power 0.
WidgetCaptures == {[i \in 1 .. k |-> 0] : k \in 1 .. MaxN}

Next ==
    \/ \E power \in WidgetCaptures : capture_received(power)
    \/ \E num \in Traces, index \in DrawItems : currentIndexChanged(num, index)
    \/ \E num \in Traces : add_trace_clicked(num)
    \/ \E num \in Traces : remove_trace_clicked(num)
    \/ \E num \in Traces : add_marker_clicked(num)
    \/ \E num \in Markers : marker_select(num)
    \/ \E num \in Markers : center_clicked(num)
    \/ \E num \in Markers : remove_marker_clicked(num)

Spec == Init /\ [][Next]_vars

\* ------------------------------------------------------ the marker machine
\* Captures, the view, the marker widgets and the searches, with the traces
\* as the plot may construct them: trace 0 live, the others blank.
InitMarkers ==
    /\ Init
    /\ traces[0].write
    /\ \A k \in Traces \ {0} : traces[k].blank

NextMarkers ==
    \/ \E power \in Captures(MaxSamples) : capture_received(power)
    \/ \E window \in ViewsOver(MaxSamples) : view_changed(window)
    \/ \E num \in Traces : add_marker_clicked(num)
    \/ \E num \in Markers : marker_select(num)
    \/ \E num \in Markers : center_clicked(num)
    \/ \E num \in Markers : remove_marker_clicked(num)
    \/ \E num \in Markers : find_peak(num)
    \/ \E num \in Markers : find_right_peak(num)
    \/ \E num \in Markers : find_left_peak(num)

SpecMarkers == InitMarkers /\ [][NextMarkers]_vars

\* ------------------------------------------------------ the search engine
\* The searches on their own, on marker 0, from every state the widget can be
\* in once a capture of up to MaxLen samples has arrived: trace 0 is live and
\* holds the capture, the view is any window, and marker 0 is either still
\* disabled (index unset) or was added to trace 0, its index unset, or the
\* int a Center press left there, or the one-element array a Peak press left
\* there, while an earlier capture was current.
SearchMarker == CHOOSE m \in Markers : \A o \in Markers : m <= o

SearchIndexes(n) ==
    {NoIndex} \cup {IntIndex(k) : k \in 0 .. n}
              \cup {ArrayIndex(<< k >>) : k \in 0 .. (n - 1)}

InitSearch ==
    \E power \in Captures(MaxLen) :
        /\ pow_data = power
        /\ xdata = CaptureAxis(Len(power))
        /\ traces = [k \in Traces |->
                        IF k = 0
                        THEN [write |-> TRUE, max_hold |-> FALSE, min_hold |-> FALSE,
                              blank |-> FALSE, data |-> power]
                        ELSE [write |-> FALSE, max_hold |-> FALSE, min_hold |-> FALSE,
                              blank |-> TRUE, data |-> None]]
        /\ \E marker \in {InitialMarker} \cup
                       {[enabled |-> TRUE, trace_index |-> 0, data_index |-> index] :
                           index \in SearchIndexes(Len(power))} :
               markers = [m \in Markers |->
                             IF m = SearchMarker THEN marker ELSE InitialMarker]
        /\ draw = [num \in Traces |-> num]
        /\ checked = IF markers[SearchMarker].enabled THEN SearchMarker ELSE -1
        /\ marker_selected = 0
        /\ layout = build_layout(traces, markers)
        /\ view \in ViewsOver(Len(power))
        /\ last = Done("init", 0, "none")

NextSearch ==
    \/ find_peak(SearchMarker)
    \/ find_right_peak(SearchMarker)
    \/ find_left_peak(SearchMarker)

SpecSearch == InitSearch /\ [][NextSearch]_vars

\* ================================================================= claims
SearchOps == {"find_peak", "find_right_peak", "find_left_peak"}

\* the data of the trace marker n is bound to
TraceData(n) == traces[markers[n].trace_index].data

\* C1: right after Center, Peak, Peak Right or Peak Left ran on an enabled
\* marker, an index that is set is one single index within [0, N-1] of the
\* power array of the marker's trace.
C1_MarkerIndexWithinTrace ==
    \A n \in Markers :
        (/\ last.op \in SearchOps \cup {"center_clicked"}
         /\ last.num = n
         /\ markers[n].enabled
         /\ markers[n].data_index.kind # "none")
        => /\ Len(markers[n].data_index.v) = 1
           /\ markers[n].data_index.v[1] \in 0 .. (Len(TraceData(n)) - 1)

\* C2: no enabled marker is bound to a blank trace.
C2_NoEnabledMarkerOnBlankTrace ==
    \A n \in Markers : markers[n].enabled => ~ traces[markers[n].trace_index].blank

\* C2 witness: a trace was just removed, and a marker that had been added
\* to it (no marker starts on a trace other than 0) is disabled while the
\* other marker is still enabled on its own trace.
C2_Witness ==
    /\ last.op = "remove_trace_clicked"
    /\ last.num # 0
    /\ \E n \in Markers :
           /\ markers[n].trace_index = last.num
           /\ ~ markers[n].enabled
           /\ \E o \in Markers \ {n} : markers[o].enabled

\* the index a search leaves when the window misses the data: the index as it
\* was, except that Peak Right, and Peak Left on an enabled marker, replace
\* an unset index of a trace that holds data by the default len(P) / 2
IndexOnMiss(n, op) ==
    IF /\ markers[n].data_index.kind = "none"
       /\ TraceData(n) # None
       /\ (op = "find_right_peak" \/ (op = "find_left_peak" /\ markers[n].enabled))
    THEN IntIndex(HalfLen(TraceData(n)))
    ELSE markers[n].data_index

SearchOnMiss(n) ==
    /\ last'.op \in SearchOps
    /\ last'.num = n
    /\ xdata # None
    /\ WindowMisses(view, xdata)

\* C3 as claimed: with a view window that does not intersect [F[0], F[N-1]],
\* each search leaves the marker's index exactly as it was, an unset index
\* included.
C3_WindowMissKeepsIndex ==
    [][\A n \in Markers :
          (SearchOnMiss(n) /\ markers[n].enabled)
          => markers'[n].data_index = markers[n].data_index]_vars

\* C3 amended: with a view window that does not intersect [F[0], F[N-1]],
\* Peak leaves the index exactly as it was, and Peak Right and Peak Left
\* leave every set index exactly as it was; an unset index they replace by
\* the default len(P) / 2 once they get to read it (the trace holds data and,
\* for Peak Left, the marker is enabled).
C3_WindowMissKeepsSetIndex ==
    [][\A n \in Markers :
          SearchOnMiss(n) => markers'[n].data_index = IndexOnMiss(n, last'.op)]_vars

\* C3 witness: Peak Right ran under a window that misses the data on a marker
\* whose index an earlier Peak had set.
C3_Witness ==
    /\ last.op = "find_right_peak"
    /\ last.raised = "none"
    /\ WindowMisses(view, xdata)
    /\ markers[last.num].data_index.kind = "array"

\* every index of the array or int ix satisfies P
AllIndexes(ix, P(_)) == \A i \in 1 .. Len(ix.v) : P(ix.v[i])

\* C4: when Peak Right moves a marker off its index m, every index it leaves
\* lies in (m, N-1]; when Peak Left does, in [0, m).
C4_PeakSideOfMarker ==
    [][\A n \in Markers :
          LET old == markers[n].data_index
              new == markers'[n].data_index
              RightOfOld(i) == old.v[1] < i /\ i <= Len(TraceData(n)) - 1
              LeftOfOld(i) == 0 <= i /\ i < old.v[1]
          IN  (/\ last'.num = n
               /\ last'.raised = "none"
               /\ old.kind = "int"
               /\ new.v # old.v)
              => /\ last'.op = "find_right_peak" => AllIndexes(new, RightOfOld)
                 /\ last'.op = "find_left_peak" => AllIndexes(new, LeftOfOld)]_vars

\* C5: when Peak returns under a window that intersects the data, every index
\* it leaves lies in the window-clipped interval [lo, hi) and holds the
\* maximum of P[lo:hi].
C5_PeakIsWindowMaximum ==
    [][\A n \in Markers :
          LET lo == searchsorted(xdata, view.lo)
              hi == searchsorted(xdata, view.hi)
              IsWindowMax(i) ==
                  /\ lo <= i /\ i < hi
                  /\ \A j \in lo .. (hi - 1) : At(TraceData(n), j) <= At(TraceData(n), i)
          IN  (/\ last'.op = "find_peak"
               /\ last'.num = n
               /\ markers[n].enabled
               /\ last'.raised = "none"
               /\ ~ WindowMisses(view, xdata))
              => AllIndexes(markers'[n].data_index, IsWindowMax)]_vars

\* C6: a search on an enabled marker whose index is unset or an int, over a
\* trace that holds data, never ends in an error.
C6_SearchNeverRaises ==
    [][\A n \in Markers :
          (/\ last'.op \in SearchOps
           /\ last'.num = n
           /\ markers[n].enabled
           /\ markers[n].data_index.kind \in {"none", "int"}
           /\ TraceData(n) # None
           /\ xdata # None)
          => last'.raised = "none"]_vars

C8_ExactlyOneMode ==
    \A k \in Traces : OneMode(traces[k]) /\ (traces[k].blank => traces[k].data = None)

\* C8 witness: after a capture, with one trace on max hold and one on min
\* hold, the third trace was just blanked.
C8_Witness ==
    /\ last.op = "remove_trace_clicked"
    /\ traces[last.num].blank
    /\ pow_data # None
    /\ \E j, k \in Traces : /\ traces[j].max_hold /\ traces[j].data # None
                            /\ traces[k].min_hold /\ traces[k].data # None

\* the noise floor as claimed: the mean of the sorted sub-array from index
\* floor(0.8 * len) through its last element
ClaimedNoiseFloor(pow) == mean(Slice(sort(pow), Int08(Len(pow)), Len(pow)))

ClaimedCandidates(pow, t) == masked_less_compressed(pow, ClaimedNoiseFloor(pow), t)

\* what a search leaves for the candidates values: the index as it was when
\* there are none, else every index of data holding the chosen candidate
IndexOfChoice(old, data, values, Choice(_)) ==
    IF values = << >> THEN old ELSE ArrayIndex(where(data, Choice(values)))

\* C9: what Peak Right and Peak Left leave, from an int index within the
\* trace over a non-empty sub-array, is what the candidates >= noise floor + t give for some
\* threshold t, the noise floor being the mean of the sorted sub-array from
\* index floor(0.8 * len) through its last element.
C9_NoiseFloorTopFifth ==
    [][\A n \in Markers :
          LET old == markers[n].data_index
              new == markers'[n].data_index
              data == TraceData(n)
              rp == right_pow(data, xdata, view, old.v[1])
              lp == left_pow(data, xdata, view, old.v[1])
          IN  (/\ last'.num = n
               /\ last'.raised = "none"
               /\ old.kind = "int"
               /\ data # None
               /\ old.v[1] \in 0 .. (Len(data) - 1))
              => /\ (last'.op = "find_right_peak" /\ rp # << >>)
                    => \E t \in Thresholds :
                           new = IndexOfChoice(old, data, ClaimedCandidates(rp, t),
                                               right_choice)
                 /\ (last'.op = "find_left_peak" /\ lp # << >>)
                    => \E t \in Thresholds :
                           new = IndexOfChoice(old, data, ClaimedCandidates(lp, t),
                                               left_choice)]_vars

\* C10: when Peak Right moves a marker, the index it leaves is one single
\* index: the first index of the power array that holds the second candidate,
\* or the only candidate.
C10_PeakRightSecondCandidate ==
    [][\A n \in Markers :
          LET old == markers[n].data_index
              new == markers'[n].data_index
              data == TraceData(n)
          IN  (/\ last'.op = "find_right_peak"
               /\ last'.num = n
               /\ last'.raised = "none"
               /\ old.kind = "int"
               /\ new # old)
              => \E t \in Thresholds :
                     LET values == peak_values(right_pow(data, xdata, view, old.v[1]), t)
                     IN  /\ values # << >>
                         /\ new.v = << where(data, right_choice(values))[1] >>]_vars

\* the index Peak Left starts from: the marker's own, or the default
\* len(P) / 2 for an unset one
StartIndex(n) ==
    IF markers[n].data_index.kind = "none"
    THEN IntIndex(Len(TraceData(n)) \div 2)
    ELSE markers[n].data_index

\* the positions of [0, m) clipped to the view window: those from the first
\* sample of F[0:m] not below f_lo up to the one before the first not below
\* f_hi
LeftClipped(m) ==
    LET below(f) == Cardinality({i \in 0 .. (m - 1) : At(xdata, i) < f})
    IN  below(view.lo) .. (below(view.hi) - 1)

\* the candidates of Peak Left from m under the threshold t, as positions
LeftCandidates(n, m, t) ==
    LET clipped == LeftClipped(m)
        sub == [k \in 1 .. Cardinality(clipped) |->
                   At(TraceData(n), k - 1 + CHOOSE i \in clipped : \A j \in clipped : i <= j)]
    IN  {i \in clipped : ~ LessThanMeanPlus(At(TraceData(n), i), noise_floor(sub), t)}

\* the second-to-last of the positions c, or the only one
SecondToLast(c) ==
    IF Cardinality(c) = 1 THEN CHOOSE i \in c : TRUE
    ELSE CHOOSE i \in c : Cardinality({j \in c : j > i}) = 1

LowestDisabled(ms) ==
    CHOOSE m \in Markers : ~ ms[m].enabled /\ \A o \in Markers : o < m => ms[o].enabled

\* "+ Marker" is offered by the layout lo only while a marker of ms is disabled
OfferedWhileDisabled(lo, ms) ==
    lo.add_marker # {} => \E m \in Markers : ~ ms[m].enabled

\* C12: a press of "+ Marker" on trace k enables the lowest-numbered disabled
\* marker, binds it to trace k and makes it the selected marker, and changes
\* neither the enabled flag nor the trace binding of a marker that was
\* enabled already; "+ Marker" is offered only while a marker is disabled.
C12_AddMarkerLowestDisabled ==
    [][/\ OfferedWhileDisabled(layout, markers)
       /\ OfferedWhileDisabled(layout', markers')
       /\ last'.op = "add_marker_clicked"
          => /\ \E m \in Markers : ~ markers[m].enabled
             /\ LET m == LowestDisabled(markers) IN
                /\ markers'[m].enabled
                /\ markers'[m].trace_index = last'.num
                /\ marker_selected' = m
             /\ \A o \in Markers :
                   markers[o].enabled
                   => /\ markers'[o].enabled
                      /\ markers'[o].trace_index = markers[o].trace_index]_vars

\* C12 witness: "+ Marker" was pressed on a trace while marker 0 was enabled
\* on another trace: marker 1 is enabled on the pressed trace and selected,
\* and no "+ Marker" is offered any more.
C12_Witness ==
    /\ last.op = "add_marker_clicked"
    /\ markers[0].enabled
    /\ markers[0].trace_index # last.num
    /\ markers[1].enabled
    /\ markers[1].trace_index = last.num
    /\ marker_selected = 1
    /\ layout.add_marker = {}

====
